---- MODULE Spec2Model ----
(***************************************************************************)
(* treasure-trove: the submission pipeline of src/main.rs.                 *)
(*                                                                         *)
(* handle_submit parses the raw text (llm_parse, with a local fallback),   *)
(* opens a deferred SQLite transaction, resolves the container             *)
(* (choose_container), assembles and inserts the items (save_items_tx),    *)
(* commits, prints a label (print_zebra_label) and renders the response.   *)
(* Several requests run concurrently, each on its own connection to the    *)
(* one database file.                                                      *)
(*                                                                         *)
(* Strings are sequences of one-character strings, so that trim, parse and *)
(* html_escape are computed as the code computes them.                     *)
(*                                                                         *)
(* The database is SQLite in its default rollback-journal mode: any number *)
(* of connections may hold a SHARED (read) lock, one may hold the RESERVED *)
(* (write) lock and works on private pages until it commits, and a commit  *)
(* needs every other SHARED lock released.  Connection::open,              *)
(* Connection::transaction and Transaction::commit are taken to succeed    *)
(* (the code panics on their failure).                                     *)
(***************************************************************************)
EXTENDS Integers, Sequences, FiniteSets, TLC

\* The number of requests served in one behaviour.
MaxRequests == 2

\* The concurrent executions of handle_submit.
Handlers == {1, 2}

VARIABLES
    db_containers,   \* the committed containers table: rows [id, name]
    db_items,        \* the committed items table
    tx_containers,   \* the containers table as seen by the write transaction
    tx_items,        \* the items table as seen by the write transaction
    writer,          \* the handler whose transaction holds the RESERVED lock, or 0
    readers,         \* the handlers whose transactions hold a SHARED lock only
    nreq,            \* requests accepted so far
    pc,              \* each handler's position in handle_submit
    input,           \* each handler's InputForm
    llm_result,      \* what llm_parse returned: Ok(items) or Err
    llm_attempts,    \* calls of llm_parse made for the current request
    parsed_items,    \* handle_submit's parsed_items
    container_id,    \* Option<i64> bound from choose_container's result
    container_name,  \* handle_submit's container_name
    choose_result,   \* "none" before the call, then "ok" or "err"
    items,           \* handle_submit's items: Vec<Item>
    save_result,     \* "none" before the call, then "ok" or "err"
    print_result,    \* "none" before the call, then "ok" or "err"
    response         \* the Html returned to the caller

dbVars == <<db_containers, db_items, tx_containers, tx_items, writer, readers>>
llmVars == <<llm_result, llm_attempts, parsed_items>>
parseVars == <<input, llm_result, llm_attempts, parsed_items>>
chooseVars == <<container_id, container_name, choose_result, items>>
vars == <<db_containers, db_items, tx_containers, tx_items, writer, readers, nreq,
          pc, input, llm_result, llm_attempts, parsed_items, container_id,
          container_name, choose_result, items, save_result, print_result, response>>

----------------------------------------------------------------------------
\* Option<T>

None == [some |-> FALSE]
Some(v) == [some |-> TRUE, val |-> v]

----------------------------------------------------------------------------
\* str::trim

IsWhitespace(c) == c \in {" ", "\n", "\t"}

RECURSIVE TrimStart(_)
TrimStart(s) ==
    IF s = <<>> THEN <<>>
    ELSE IF IsWhitespace(Head(s)) THEN TrimStart(Tail(s))
    ELSE s

RECURSIVE TrimEnd(_)
TrimEnd(s) ==
    IF s = <<>> THEN <<>>
    ELSE IF IsWhitespace(s[Len(s)]) THEN TrimEnd(SubSeq(s, 1, Len(s) - 1))
    ELSE s

Trim(s) == TrimEnd(TrimStart(s))

\* A mutant of normalize_optional: the text is kept untrimmed.
normalize_optional_untrimmed(opt) ==
    IF ~opt.some THEN None
    ELSE IF Trim(opt.val) = <<>> THEN None
    ELSE Some(opt.val)

\* A mutant of normalize_optional: the trimmed text is kept when it is empty.
normalize_optional_keeps_empty(opt) ==
    IF ~opt.some THEN None ELSE Some(Trim(opt.val))

normalize_optional(opt) ==
    IF ~opt.some THEN None
    ELSE LET trimmed == Trim(opt.val)
         IN  IF trimmed = <<>> THEN None ELSE Some(trimmed)

----------------------------------------------------------------------------
\* str::parse::<i64> on the digit strings the form's <select> can carry

Digits == {"0", "1", "2", "3", "4", "5", "6", "7", "8", "9"}

DigitValue(c) ==
    CASE c = "0" -> 0 [] c = "1" -> 1 [] c = "2" -> 2 [] c = "3" -> 3
      [] c = "4" -> 4 [] c = "5" -> 5 [] c = "6" -> 6 [] c = "7" -> 7
      [] c = "8" -> 8 [] c = "9" -> 9

RECURSIVE DecimalValue(_)
DecimalValue(t) ==
    IF t = <<>> THEN 0
    ELSE 10 * DecimalValue(SubSeq(t, 1, Len(t) - 1)) + DigitValue(t[Len(t)])

ParseI64(t) ==
    IF t # <<>> /\ \A i \in 1..Len(t) : t[i] \in Digits
    THEN Some(DecimalValue(t))
    ELSE None

container_select_id(form) ==
    IF ~form.container_select.some THEN None
    ELSE LET t == Trim(form.container_select.val)
         IN  IF t = <<>> THEN None ELSE ParseI64(t)

location(form) == normalize_optional(form.location)

----------------------------------------------------------------------------
\* html_escape

EscapeChar(c) ==
    CASE c = "&" -> <<"&", "a", "m", "p", ";">>
      [] c = "<" -> <<"&", "l", "t", ";">>
      [] c = ">" -> <<"&", "g", "t", ";">>
      [] OTHER   -> <<c>>

RECURSIVE html_escape(_)
html_escape(s) ==
    IF s = <<>> THEN <<>> ELSE EscapeChar(Head(s)) \o html_escape(Tail(s))

----------------------------------------------------------------------------
\* The requests the presentation layer sends and the answers of the
\* structuring capability.

TextInputs == {<<" ">>, <<" ", "a", " ">>}

\* The <select> sends "" for "-- None --" and a container id otherwise.
SelectInputs == {Some(<<>>), Some(<<" ", "1">>)}

NewInputs == {None, Some(<<>>), Some(<<" ">>), Some(<<" ", "a">>)}

LocationInputs == {Some(<<"s", " ">>)}

InputForm ==
    [text : TextInputs, container_select : SelectInputs,
     container_new : NewInputs, location : LocationInputs]

ParsedItem(n, q) == [name |-> n, quantity |-> q]

Ok(v) == [ok |-> TRUE, val |-> v]
Err == [ok |-> FALSE]

\* llm_parse: the capability call fails (Err), or its response deserializes
\* into ParsedInventory.
LlmResults ==
    {Err, Ok(<<ParsedItem(<<"n">>, 3), ParsedItem(<<"h">>, 1)>>)}

NoForm == [text |-> <<>>, container_select |-> None,
           container_new |-> None, location |-> None]

\* The containers tables a run may start from (the table persists across
\* runs of the server); ids are AUTOINCREMENT and rows are never deleted.
ContainerRow(i, n) == [id |-> i, name |-> n]

StartContainers == {<<>>, <<ContainerRow(1, <<"b">>)>>}

----------------------------------------------------------------------------
\* The tables

\* The table a transaction's statements see: its own uncommitted pages when
\* it holds the write lock, the committed file otherwise.
ViewContainers(s) == IF writer = s THEN tx_containers ELSE db_containers
ViewItems(s) == IF writer = s THEN tx_items ELSE db_items

RowsNamed(table, n) == {i \in 1..Len(table) : table[i].name = n}
RowsWithId(table, id) == {i \in 1..Len(table) : table[i].id = id}

\* A mutant of InsertOrIgnore: a plain INSERT without the UNIQUE constraint.
InsertAlways(table, n) == Append(table, ContainerRow(Len(table) + 1, n))

\* INSERT OR IGNORE INTO containers (name) VALUES (?1), name being UNIQUE.
InsertOrIgnore(table, n) ==
    IF RowsNamed(table, n) # {} THEN table
    ELSE Append(table, ContainerRow(Len(table) + 1, n))

\* A mutant of SelectIdByName: the WHERE clause is lost and the first row's
\* id comes back.
SelectFirstId(table, n) ==
    IF table = <<>> THEN Err ELSE Ok(table[1].id)

\* SELECT id FROM containers WHERE name = ?1
SelectIdByName(table, n) ==
    IF RowsNamed(table, n) = {} THEN Err
    ELSE Ok(table[CHOOSE i \in RowsNamed(table, n) : TRUE].id)

\* SELECT name FROM containers WHERE id = ?1
SelectNameById(table, id) ==
    IF RowsWithId(table, id) = {} THEN Err
    ELSE Ok(table[CHOOSE i \in RowsWithId(table, id) : TRUE].name)

Item(pi, cid, loc) ==
    [id |-> 0, name |-> pi.name, quantity |-> pi.quantity,
     container_id |-> cid, location |-> loc]

\* A mutant of Assemble: only the first item carries the container.
AssembleFirstOnly(parsed, cid, loc) ==
    [i \in 1..Len(parsed) |-> Item(parsed[i], IF i = 1 THEN cid ELSE None, loc)]

\* parsed_items.into_iter().map(|pi| Item {..}).collect()
Assemble(parsed, cid, loc) ==
    [i \in 1..Len(parsed) |-> Item(parsed[i], cid, loc)]

\* INSERT INTO items (name, quantity, container_id, location_hint)
ItemRow(table, item) ==
    [id |-> Len(table) + 1, name |-> item.name, quantity |-> item.quantity,
     container_id |-> item.container_id, location_hint |-> item.location]

RECURSIVE InsertItems(_, _, _)
InsertItems(table, its, k) ==
    IF k = 0 THEN table
    ELSE LET before == InsertItems(table, its, k - 1)
         IN  Append(before, ItemRow(before, its[k]))

\* The page handle_submit renders: one line per item of `items`.
Line(item) ==
    [quantity |-> item.quantity, name |-> html_escape(item.name),
     container_id |-> item.container_id,
     location |-> IF item.location.some
                  THEN Some(html_escape(item.location.val)) ELSE None]

Render(its) ==
    [title |-> "Inventory Saved", heading |-> "Parsed Items",
     lines |-> [i \in 1..Len(its) |-> Line(its[i])]]

----------------------------------------------------------------------------
Init ==
    /\ db_containers \in StartContainers
    /\ db_items = <<>>
    /\ tx_containers = <<>>
    /\ tx_items = <<>>
    /\ writer = 0
    /\ readers = {}
    /\ nreq = 0
    /\ pc = [s \in Handlers |-> "idle"]
    /\ input = [s \in Handlers |-> NoForm]
    /\ llm_result = [s \in Handlers |-> Err]
    /\ llm_attempts = [s \in Handlers |-> 0]
    /\ parsed_items = [s \in Handlers |-> <<>>]
    /\ container_id = [s \in Handlers |-> None]
    /\ container_name = [s \in Handlers |-> None]
    /\ choose_result = [s \in Handlers |-> "none"]
    /\ items = [s \in Handlers |-> <<>>]
    /\ save_result = [s \in Handlers |-> "none"]
    /\ print_result = [s \in Handlers |-> "none"]
    /\ response = [s \in Handlers |-> None]

\* A mutant of Fallback: the raw text is not trimmed.
FallbackUntrimmed(text) == <<ParsedItem(text, 1)>>

\* The fallback of handle_submit when llm_parse fails.
Fallback(text) == <<ParsedItem(Trim(text), 1)>>

\* handle_submit up to the end of llm_parse: the form arrives, the capability
\* is called once, and its failure is replaced by the fallback.  The handlers
\* are interchangeable, so the first request goes to handler 1.
LlmParse(s) ==
    /\ pc[s] \in {"idle", "done"}
    /\ nreq < MaxRequests
    /\ s = 1 \/ nreq > 0
    /\ \E form \in InputForm, res \in LlmResults :
         /\ input' = [input EXCEPT ![s] = form]
         /\ llm_result' = [llm_result EXCEPT ![s] = res]
         /\ parsed_items' = [parsed_items EXCEPT ![s] =
                IF res.ok THEN res.val ELSE Fallback(form.text)]
    /\ llm_attempts' = [llm_attempts EXCEPT ![s] = 1]
    /\ nreq' = nreq + 1
    /\ container_id' = [container_id EXCEPT ![s] = None]
    /\ container_name' = [container_name EXCEPT ![s] = None]
    /\ choose_result' = [choose_result EXCEPT ![s] = "none"]
    /\ items' = [items EXCEPT ![s] = <<>>]
    /\ save_result' = [save_result EXCEPT ![s] = "none"]
    /\ print_result' = [print_result EXCEPT ![s] = "none"]
    /\ response' = [response EXCEPT ![s] = None]
    /\ pc' = [pc EXCEPT ![s] = "begin"]
    /\ UNCHANGED dbVars

\* Connection::open and conn.transaction(): BEGIN DEFERRED takes no lock.
\* input.text is not read again.
BeginTx(s) ==
    /\ pc[s] = "begin"
    /\ input' = [input EXCEPT ![s].text = <<>>]
    /\ pc' = [pc EXCEPT ![s] = "choose"]
    /\ UNCHANGED <<dbVars, nreq, llm_result, llm_attempts, parsed_items,
                   chooseVars, save_result, print_result, response>>

\* handle_submit binding choose_container's result and assembling the items.
Resolved(s, result) ==
    LET pair == IF result.ok THEN result.val ELSE <<None, None>>
    IN  /\ choose_result' = [choose_result EXCEPT ![s] =
                                IF result.ok THEN "ok" ELSE "err"]
        /\ container_id' = [container_id EXCEPT ![s] = pair[1]]
        /\ container_name' = [container_name EXCEPT ![s] = pair[2]]
        /\ items' = [items EXCEPT ![s] =
                        Assemble(parsed_items[s], pair[1], location(input[s]))]
        /\ pc' = [pc EXCEPT ![s] = "save"]

\* A mutant of Branch: the selected id is tried before the new name.
BranchSelectFirst(form) ==
    IF container_select_id(form).some THEN "select"
    ELSE IF normalize_optional(form.container_new).some THEN "new"
    ELSE "none"

\* Which branch of choose_container a form takes.
Branch(form) ==
    IF normalize_optional(form.container_new).some THEN "new"
    ELSE IF container_select_id(form).some THEN "select"
    ELSE "none"

\* choose_container, new name: INSERT OR IGNORE.  The statement takes the
\* write lock, waiting while another transaction holds it.
ChooseContainerInsert(s) ==
    /\ pc[s] = "choose"
    /\ Branch(input[s]) = "new"
    /\ writer = 0
    /\ writer' = s
    /\ tx_containers' = InsertOrIgnore(db_containers,
                            normalize_optional(input[s].container_new).val)
    /\ tx_items' = db_items
    /\ pc' = [pc EXCEPT ![s] = "readback"]
    /\ UNCHANGED <<db_containers, db_items, readers, nreq, parseVars,
                   chooseVars, save_result, print_result, response>>

\* choose_container, new name: the wait for the write lock ends with
\* SQLITE_BUSY and `?` returns the error.
ChooseContainerBusy(s) ==
    /\ pc[s] = "choose"
    /\ Branch(input[s]) = "new"
    /\ writer \notin {0, s}
    /\ Resolved(s, Err)
    /\ UNCHANGED <<dbVars, nreq, parseVars, save_result, print_result, response>>

\* choose_container, new name: the read-back SELECT and the return.
ChooseContainerReadBack(s) ==
    /\ pc[s] = "readback"
    /\ LET new_name == normalize_optional(input[s].container_new).val
           id == SelectIdByName(ViewContainers(s), new_name)
       IN  Resolved(s, IF id.ok THEN Ok(<<Some(id.val), Some(new_name)>>) ELSE Err)
    /\ UNCHANGED <<dbVars, nreq, parseVars, save_result, print_result, response>>

\* A mutant of ChooseContainerLookup: an id that is not found is returned
\* without a name instead of the error.
ChooseContainerLookupSilent(s) ==
    /\ pc[s] = "choose"
    /\ Branch(input[s]) = "select"
    /\ LET id == container_select_id(input[s]).val
           name == SelectNameById(ViewContainers(s), id)
       IN  Resolved(s, Ok(<<Some(id), IF name.ok THEN Some(name.val) ELSE None>>))
    /\ readers' = readers \cup {s}
    /\ UNCHANGED <<db_containers, db_items, tx_containers, tx_items, writer,
                   nreq, parseVars, save_result, print_result, response>>

\* choose_container, selected id: the name lookup takes a SHARED lock.
ChooseContainerLookup(s) ==
    /\ pc[s] = "choose"
    /\ Branch(input[s]) = "select"
    /\ LET id == container_select_id(input[s]).val
           name == SelectNameById(ViewContainers(s), id)
       IN  Resolved(s, IF name.ok THEN Ok(<<Some(id), Some(name.val)>>) ELSE Err)
    /\ readers' = readers \cup {s}
    /\ UNCHANGED <<db_containers, db_items, tx_containers, tx_items, writer,
                   nreq, parseVars, save_result, print_result, response>>

\* choose_container, nothing selected or created.
ChooseContainerNone(s) ==
    /\ pc[s] = "choose"
    /\ Branch(input[s]) = "none"
    /\ Resolved(s, Ok(<<None, None>>))
    /\ UNCHANGED <<dbVars, nreq, parseVars, save_result, print_result, response>>

\* save_items_tx returns to handle_submit, which goes on to commit; the
\* container fields of the form are not read again.
SaveReturns(s) ==
    /\ input' = [input EXCEPT ![s].container_select = None,
                               ![s].container_new = None]
    /\ pc' = [pc EXCEPT ![s] = "commit"]

\* save_items_tx where every row is inserted.  The first INSERT takes the
\* write lock unless choose_container already did.
SaveItemsTxOk(s) ==
    /\ pc[s] = "save"
    /\ writer \in {0, s} \/ items[s] = <<>>
    /\ IF items[s] = <<>>
       THEN UNCHANGED <<tx_containers, tx_items, writer, readers>>
       ELSE /\ writer' = s
            /\ readers' = readers \ {s}
            /\ tx_containers' = ViewContainers(s)
            /\ tx_items' = InsertItems(ViewItems(s), items[s], Len(items[s]))
    /\ save_result' = [save_result EXCEPT ![s] = "ok"]
    /\ SaveReturns(s)
    /\ UNCHANGED <<db_containers, db_items, nreq, llmVars, chooseVars,
                   print_result, response>>

\* save_items_tx where the INSERT of row k + 1 fails (disk full, I/O error):
\* SQLite undoes that statement, the k rows before it stay in the
\* transaction, and `?` returns the error.
SaveItemsTxFail(s) ==
    /\ pc[s] = "save"
    /\ writer \in {0, s}
    /\ \E k \in 0..(Len(items[s]) - 1) :
         tx_items' = InsertItems(ViewItems(s), items[s], k)
    /\ writer' = s
    /\ readers' = readers \ {s}
    /\ tx_containers' = ViewContainers(s)
    /\ save_result' = [save_result EXCEPT ![s] = "err"]
    /\ SaveReturns(s)
    /\ UNCHANGED <<db_containers, db_items, nreq, llmVars, chooseVars,
                   print_result, response>>

\* save_items_tx where another transaction holds the write lock: SQLITE_BUSY
\* on the first INSERT, at once when this transaction already holds a SHARED
\* lock (SQLite does not wait where waiting could deadlock), after the busy
\* timeout otherwise.
SaveItemsTxBusy(s) ==
    /\ pc[s] = "save"
    /\ items[s] # <<>>
    /\ writer \notin {0, s}
    /\ save_result' = [save_result EXCEPT ![s] = "err"]
    /\ SaveReturns(s)
    /\ UNCHANGED <<dbVars, nreq, llmVars, chooseVars, print_result, response>>

\* A mutant of Commit: the label is printed inside the transaction block,
\* before the commit.
CommitAfterPrint(s) ==
    /\ pc[s] = "commit"
    /\ pc' = [pc EXCEPT ![s] = "print"]
    /\ UNCHANGED <<dbVars, nreq, parseVars, chooseVars, save_result,
                   print_result, response>>

\* tx.commit(), run whether or not save_items_tx failed.  A write
\* transaction waits until no other transaction holds a SHARED lock, then
\* its pages become the committed file.
Commit(s) ==
    /\ pc[s] = "commit"
    /\ IF writer = s
       THEN /\ readers \ {s} = {}
            /\ db_containers' = tx_containers
            /\ db_items' = tx_items
            /\ tx_containers' = <<>>
            /\ tx_items' = <<>>
            /\ writer' = 0
       ELSE UNCHANGED <<db_containers, db_items, tx_containers, tx_items, writer>>
    /\ readers' = readers \ {s}
    /\ pc' = [pc EXCEPT ![s] = "print"]
    /\ UNCHANGED <<nreq, parseVars, chooseVars, save_result, print_result, response>>

\* print_zebra_label: spawning lp or writing to it may fail; the result is
\* only logged.
PrintZebraLabel(s) ==
    /\ pc[s] = "print"
    /\ \E r \in {"ok", "err"} : print_result' = [print_result EXCEPT ![s] = r]
    /\ pc' = [pc EXCEPT ![s] = "respond"]
    /\ UNCHANGED <<dbVars, nreq, parseVars, chooseVars, save_result, response>>

\* handle_submit renders the page and returns it; the result of the print
\* was only logged.
Respond(s) ==
    /\ pc[s] = "respond"
    /\ response' = [response EXCEPT ![s] = Some(Render(items[s]))]
    /\ print_result' = [print_result EXCEPT ![s] = "none"]
    /\ pc' = [pc EXCEPT ![s] = "done"]
    /\ UNCHANGED <<dbVars, nreq, parseVars, chooseVars, save_result>>

Next ==
    \E s \in Handlers :
        \/ LlmParse(s)
        \/ BeginTx(s)
        \/ ChooseContainerInsert(s)
        \/ ChooseContainerBusy(s)
        \/ ChooseContainerReadBack(s)
        \/ ChooseContainerLookup(s)
        \/ ChooseContainerNone(s)
        \/ SaveItemsTxOk(s)
        \/ SaveItemsTxFail(s)
        \/ SaveItemsTxBusy(s)
        \/ Commit(s)
        \/ PrintZebraLabel(s)
        \/ Respond(s)

Spec == Init /\ [][Next]_vars

----------------------------------------------------------------------------
\* Properties

\* choose_container returned Ok((Some(id), Some(name))) to handler s.
HasContainer(s) ==
    /\ choose_result[s] = "ok"
    /\ container_id[s].some
    /\ container_name[s].some

\* handle_submit has left choose_container.
PastChoose(s) == pc[s] \in {"save", "commit", "print", "respond", "done"}

\* handle_submit has committed its transaction.
Committed(s) == pc[s] \in {"print", "respond", "done"}

\* The rows of a table are named apart.
UniqueNames(table) ==
    \A i, j \in 1..Len(table) : table[i].name = table[j].name => i = j

\* C1: atomicity of a submission. When save_items_tx has failed in a
\* transaction in which choose_container created a container, the commit
\* that ends the submission leaves the committed containers and items tables
\* as they were before it: neither the new container row nor any item row of
\* the submission becomes visible.
C1_FailedSubmissionLeavesStorageUnchanged ==
    [][\A s \in Handlers :
          ( /\ pc[s] = "commit"
            /\ pc'[s] = "print"
            /\ save_result[s] = "err"
            /\ writer = s
            /\ Len(tx_containers) > Len(db_containers) )
          => (db_containers' = db_containers /\ db_items' = db_items)]_vars

NewName(s) == Trim(input[s].container_new.val)

\* C3: idempotent container creation. Whenever choose_container returns from
\* its new-name branch for the name N, the transaction's containers table has
\* exactly one row named N and the returned id is that row's id; if a row
\* named N was already committed, the INSERT OR IGNORE added no row and that
\* row's id is returned; and every submission that committed before with the
\* name N was given the same id.
C3_IdempotentCreation ==
    [][\A s \in Handlers :
          /\ ( /\ pc[s] = "choose" /\ pc'[s] = "readback"
               /\ RowsNamed(db_containers, NewName(s)) # {} )
             => tx_containers' = db_containers
          /\ ( pc[s] = "readback" /\ pc'[s] = "save" )
             => /\ choose_result'[s] = "ok"
                /\ Cardinality(RowsNamed(tx_containers, NewName(s))) = 1
                /\ \A i \in RowsNamed(tx_containers, NewName(s)) :
                      container_id'[s] = Some(tx_containers[i].id)
                /\ \A i \in RowsNamed(db_containers, NewName(s)) :
                      /\ container_id'[s] = Some(db_containers[i].id)
                      /\ tx_containers = db_containers
                /\ \A t \in Handlers \ {s} :
                      ( /\ Committed(t) /\ HasContainer(t)
                        /\ container_name[t] = Some(NewName(s)) )
                      => container_id'[s] = container_id[t]]_vars

\* A second call with the new name "a", made after a submission that was
\* given "a" has returned, was given the same id without adding a row.
C3_Witness ==
    \E s, t \in Handlers :
        /\ pc[t] = "done" /\ HasContainer(t)
        /\ container_name[t] = Some(<<"a">>)
        /\ pc[s] = "save" /\ HasContainer(s)
        /\ Branch(input[s]) = "new" /\ NewName(s) = <<"a">>
        /\ container_id[s] = container_id[t]
        /\ tx_containers = db_containers
        /\ Cardinality(RowsNamed(db_containers, <<"a">>)) = 1

\* C4: precedence of the new name. Whenever choose_container was called with
\* a new name that is non-empty after trimming and with a selected id, and
\* returned a container, the returned name is the trimmed new name and the
\* returned id is the id of the one row of that name; the selected id is not
\* returned unless it is that row's id.
C4_NewNameTakesPrecedence ==
    \A s \in Handlers :
        ( /\ pc[s] = "save"
          /\ normalize_optional(input[s].container_new).some
          /\ container_select_id(input[s]).some
          /\ choose_result[s] = "ok" )
        => /\ container_name[s] = Some(NewName(s))
           /\ \E i \in RowsNamed(ViewContainers(s), NewName(s)) :
                 /\ RowsNamed(ViewContainers(s), NewName(s)) = {i}
                 /\ container_id[s] = Some(ViewContainers(s)[i].id)

\* Called with the new name " a" and the selected id 1, which exists,
\* choose_container returned row 2, named "a".
C4_Witness ==
    \E s \in Handlers :
        /\ pc[s] = "save"
        /\ Branch(input[s]) = "new"
        /\ NewName(s) = <<"a">>
        /\ container_select_id(input[s]) = Some(1)
        /\ RowsWithId(ViewContainers(s), 1) # {}
        /\ choose_result[s] = "ok"
        /\ container_id[s] = Some(2)
        /\ container_name[s] = Some(<<"a">>)

\* Every item of a handler is a loose item.
AllLoose(s) == \A i \in 1..Len(items[s]) : items[s][i].container_id = None

\* C5: container not found. When no new name is given and the selected id is
\* not in the containers table, choose_container returns an error; and
\* whenever choose_container returned an error, handle_submit goes on with
\* container id and name absent and with every parsed item assembled as a
\* loose item, and when save_items_tx then succeeds its commit appends
\* exactly those items, loose, to the committed items table.
C5_NotFoundProceedsLoose ==
    /\ [](\A s \in Handlers :
            /\ ( /\ pc[s] = "save"
                 /\ Branch(input[s]) = "select"
                 /\ RowsWithId(ViewContainers(s),
                               container_select_id(input[s]).val) = {} )
               => choose_result[s] = "err"
            /\ ( PastChoose(s) /\ choose_result[s] = "err" )
               => /\ container_id[s] = None
                  /\ container_name[s] = None
                  /\ Len(items[s]) = Len(parsed_items[s])
                  /\ AllLoose(s))
    /\ [][\A s \in Handlers :
            ( /\ pc[s] = "commit" /\ pc'[s] = "print"
              /\ choose_result[s] = "err"
              /\ save_result[s] = "ok" )
            => /\ db_items' = InsertItems(db_items, items[s], Len(items[s]))
               /\ \A i \in (Len(db_items) + 1)..Len(db_items') :
                     db_items'[i].container_id = None
               /\ db_containers' = db_containers]_vars

\* The only request so far selected an id that does not exist; its items
\* were committed as loose rows.
C5_Witness ==
    /\ nreq = 1
    /\ pc[1] = "print"
    /\ choose_result[1] = "err"
    /\ save_result[1] = "ok"
    /\ db_containers = <<>>
    /\ Len(db_items) = Len(items[1])
    /\ Len(items[1]) = 2
    /\ \A i \in 1..Len(db_items) : db_items[i].container_id = None

\* C6: extraction failure. Whenever llm_parse returned an error, it was
\* called once, parsed_items is one item of quantity 1 named by the trimmed
\* raw text, handle_submit goes on to choose_container and save_items_tx with
\* that one item, and when save_items_tx succeeds the item is the last row
\* of the transaction's items table; the response is rendered all the same.
C6_ExtractionFailureFallsBack ==
    \A s \in Handlers :
        (pc[s] # "idle" /\ ~llm_result[s].ok)
        => /\ llm_attempts[s] = 1
           /\ Len(parsed_items[s]) = 1
           /\ parsed_items[s][1].quantity = 1
           /\ pc[s] = "begin" => parsed_items[s][1].name = Trim(input[s].text)
           /\ PastChoose(s)
              => /\ Len(items[s]) = 1
                 /\ items[s][1].name = parsed_items[s][1].name
                 /\ items[s][1].quantity = 1
           /\ (pc[s] = "commit" /\ save_result[s] = "ok")
              => /\ writer = s
                 /\ tx_items # <<>>
                 /\ tx_items[Len(tx_items)].name = parsed_items[s][1].name
                 /\ tx_items[Len(tx_items)].quantity = 1
           /\ pc[s] = "done" => response[s] = Some(Render(items[s]))

\* After a failed llm_parse on the text " a ", the one item "a" was inserted.
C6_Witness ==
    \E s \in Handlers :
        /\ pc[s] = "commit"
        /\ ~llm_result[s].ok
        /\ save_result[s] = "ok"
        /\ parsed_items[s] = <<ParsedItem(<<"a">>, 1)>>
        /\ tx_items[Len(tx_items)].name = <<"a">>

\* C7: every row of the items table has quantity >= 1 and a non-empty name.
C7_PersistedItemsValid ==
    \A i \in 1..Len(db_items) :
        db_items[i].quantity >= 1 /\ db_items[i].name # <<>>

\* C8: storage failure is reported. A submission whose save_items_tx failed
\* never returns the response that a submission whose items were persisted
\* returns.
C8_StorageFailureReported ==
    \A s, t \in Handlers :
        ( /\ pc[s] = "done" /\ pc[t] = "done"
          /\ save_result[s] = "err"
          /\ save_result[t] = "ok" )
        => response[s] # response[t]

\* C9: broadcast. The assembled items are the parsed items one for one and
\* in order, and every one carries the container id choose_container
\* resolved (or none) and the normalized location of the form.
C9_Broadcast ==
    \A s \in Handlers :
        PastChoose(s)
        => /\ Len(items[s]) = Len(parsed_items[s])
           /\ \A i \in 1..Len(items[s]) :
                 /\ items[s][i].name = parsed_items[s][i].name
                 /\ items[s][i].quantity = parsed_items[s][i].quantity
                 /\ items[s][i].container_id = container_id[s]
                 /\ items[s][i].location = normalize_optional(input[s].location)
           /\ \A i, j \in 1..Len(items[s]) :
                 /\ items[s][i].container_id = items[s][j].container_id
                 /\ items[s][i].location = items[s][j].location

\* Two parsed items were assembled with a resolved container and the
\* location "s".
C9_Witness ==
    \E s \in Handlers :
        /\ pc[s] = "save"
        /\ Len(items[s]) = 2
        /\ container_id[s].some
        /\ items[s][2].container_id = container_id[s]
        /\ items[s][2].location = Some(<<"s">>)

\* C10: the label is printed after the commit. While print_zebra_label runs
\* the handler's transaction holds no lock; the print leaves the committed
\* tables as they are, whatever its result; and the response is rendered
\* from the items alone, whatever the result of the print.
C10_PrintAfterCommit ==
    /\ [](\A s \in Handlers :
            pc[s] \in {"print", "respond"} => (writer # s /\ s \notin readers))
    /\ [][\A s \in Handlers :
            /\ (pc[s] = "print" /\ pc'[s] # "print")
               => /\ pc'[s] = "respond"
                  /\ db_containers' = db_containers
                  /\ db_items' = db_items
                  /\ items'[s] = items[s]
            /\ (pc[s] = "respond" /\ pc'[s] # "respond")
               => response'[s] = Some(Render(items[s]))]_vars

\* The print failed after a transaction that created a container and
\* inserted its items had committed.
C10_Witness ==
    \E s \in Handlers :
        /\ pc[s] = "respond"
        /\ print_result[s] = "err"
        /\ save_result[s] = "ok"
        /\ HasContainer(s)
        /\ db_containers # <<>>
        /\ \E i \in 1..Len(db_items) : db_items[i].container_id = container_id[s]

\* The new-name field of a handler's form is absent, empty or whitespace.
NewNameBlank(s) ==
    ~input[s].container_new.some \/ Trim(input[s].container_new.val) = <<>>

\* No row of a containers table has the empty name.
NoEmptyName(table) == \A i \in 1..Len(table) : table[i].name # <<>>

\* C11: the no-container path. When the new name is absent, empty or
\* whitespace-only and no id is selected, choose_container returns
\* (None, None); when the new name is blank and an id is selected, the result
\* is that of the lookup of the selected id (its row, or the error when it
\* has none), never a container made for the blank name; in both cases the
\* call takes no write lock and leaves the containers table as it was, and
\* no containers table ever has a row with the empty name.
C11_BlankNameCreatesNoContainer ==
    /\ [](/\ NoEmptyName(db_containers)
          /\ NoEmptyName(tx_containers)
          /\ \A s \in Handlers :
                (pc[s] = "save" /\ NewNameBlank(s))
                => /\ writer # s
                   /\ IF ~container_select_id(input[s]).some
                      THEN /\ choose_result[s] = "ok"
                           /\ container_id[s] = None
                           /\ container_name[s] = None
                      ELSE LET id == container_select_id(input[s]).val
                               rows == RowsWithId(db_containers, id)
                           IN  IF rows = {}
                               THEN /\ choose_result[s] = "err"
                                    /\ container_id[s] = None
                                    /\ container_name[s] = None
                               ELSE /\ choose_result[s] = "ok"
                                    /\ container_id[s] = Some(id)
                                    /\ \A i \in rows :
                                          container_name[s] =
                                              Some(db_containers[i].name))
    /\ [][\A s \in Handlers :
            (pc[s] = "choose" /\ pc'[s] # "choose" /\ NewNameBlank(s))
            => /\ pc'[s] = "save"
               /\ db_containers' = db_containers
               /\ tx_containers' = tx_containers
               /\ writer' = writer]_vars

\* With the one container "b" in the table, handler 1 sent an empty new
\* name and no selection and got (None, None), handler 2 sent a blank new
\* name and the selected id 1 and got the row "b"; the table is as it was.
C11_Witness ==
    /\ db_containers = <<ContainerRow(1, <<"b">>)>>
    /\ pc[1] = "save" /\ pc[2] = "save"
    /\ input[1].container_new = Some(<<>>)
    /\ container_select_id(input[1]) = None
    /\ choose_result[1] = "ok"
    /\ container_id[1] = None /\ container_name[1] = None
    /\ input[2].container_new = Some(<<" ">>)
    /\ container_select_id(input[2]) = Some(1)
    /\ choose_result[2] = "ok"
    /\ container_id[2] = Some(1) /\ container_name[2] = Some(<<"b">>)

\* Every row of an items table that has a container id refers to a row of
\* the containers table.
RefsResolve(itemTable, containerTable) ==
    \A i \in 1..Len(itemTable) :
        itemTable[i].container_id.some
        => RowsWithId(containerTable, itemTable[i].container_id.val) # {}

\* C12: referential integrity. In every reachable state, every committed
\* items row with a container id refers to a committed containers row, and
\* so does every row of the open write transaction within that
\* transaction's tables; the id a handler attaches to its items is the id
\* of a row its transaction sees; committed containers rows are never
\* removed or renumbered.
C12_ItemsReferToContainers ==
    /\ [](/\ RefsResolve(db_items, db_containers)
          /\ writer # 0 => RefsResolve(tx_items, tx_containers)
          /\ \A s \in Handlers :
                (PastChoose(s) /\ container_id[s].some)
                => RowsWithId(ViewContainers(s), container_id[s].val) # {})
    /\ [][/\ Len(db_containers') >= Len(db_containers)
          /\ \A i \in 1..Len(db_containers) :
                db_containers'[i] = db_containers[i]]_vars

\* Two submissions have committed items: one attached to the container 1 it
\* looked up, one to the container 2 it created in its own transaction.
C12_Witness ==
    /\ writer = 0
    /\ Len(db_containers) = 2
    /\ \E i, j \in 1..Len(db_items) :
          /\ db_items[i].container_id = Some(1)
          /\ db_items[j].container_id = Some(2)

====
